---- MODULE Spec2Model ----
(***************************************************************************)
(* A model of scenesplit: the semantic segmentation engine                 *)
(* (src/src/segmentation.rs), the policy tables (src/src/config.rs) and    *)
(* the processing pipeline (src/src/processor.rs).                         *)
(*                                                                         *)
(* Embeddings are f32 vectors in the source.  The model keeps them as      *)
(* two-component fixed-point vectors with Scale units per 1.0, so that the *)
(* cosine similarity, the anchor's moving average and its                  *)
(* re-normalisation are computed, not assumed.                             *)
(***************************************************************************)
EXTENDS Integers, Sequences, FiniteSets, TLC

\* ------------------------------------------------------------------ bounds

\* Longest input handed to SemanticSegmenter::segment.
MaxFrames == 17

\* Most changes of content between neighbouring frames of one input.
MaxChanges == 2

\* Most frames a video source decodes.
MaxDecoded == 17

\* The largest number of frames handed to compute_embeddings_batch: more
\* than one chunk at the batch sizes 16 and 32.
MaxEmbedFrames == 33

\* ------------------------------------------------------- fixed-point reals

\* Units per 1.0: 0.92 is 920, a unit vector has length 1000.
Scale == 1000

RECURSIVE SqrtIter(_, _, _)
\* The largest r in lo..hi with r * r <= x (lo * lo <= x is given).
SqrtIter(lo, hi, x) ==
    IF lo >= hi THEN lo
    ELSE LET mid == (lo + hi + 1) \div 2
         IN  IF mid * mid <= x THEN SqrtIter(mid, hi, x)
                               ELSE SqrtIter(lo, mid - 1, x)

\* f32::sqrt on a sum of squares of fixed-point components, rounded down.
Sqrt(x) == SqrtIter(0, 2 * Scale, x)

\* ------------------------------------------------------------ config.rs

DetailLevels == {"Key", "Summary", "All"}

QualityPresets == {"Fast", "Balanced", "Best"}

\* DetailLevel::similarity_threshold, in fixed point.
SimilarityThreshold(detail) ==
    CASE detail = "Key"     -> 920
      [] detail = "Summary" -> 850
      [] detail = "All"     -> 750

\* DetailLevel::min_segment_frames.
MinSegmentFrames(detail) ==
    CASE detail = "Key"     -> 90
      [] detail = "Summary" -> 45
      [] detail = "All"     -> 15

\* QualityPreset::frame_sample_rate.
FrameSampleRate(quality) ==
    CASE quality = "Fast"     -> 15
      [] quality = "Balanced" -> 5
      [] quality = "Best"     -> 1

\* A mutant of ImageResizeFactor: no preset resizes.
ImageResizeFactorFull(preset) == Scale

\* QualityPreset::image_resize_factor, in fixed point.
ImageResizeFactor(preset) ==
    CASE preset = "Fast"     -> 500
      [] preset = "Balanced" -> 750
      [] preset = "Best"     -> 1000

\* enum DetailLevel, in the order of its declaration (coarse to fine).
DetailOrder == <<"Key", "Summary", "All">>

\* enum QualityPreset, in the order of its declaration.
QualityOrder == <<"Fast", "Balanced", "Best">>

\* --------------------------------------------------------- embeddings.rs

\* Two unit embeddings of different content (orthogonal: cosine 0).
EmbA == <<Scale, 0>>

EmbB == <<0, Scale>>

Embeddings == {EmbA, EmbB}

\* EmbeddedFrame: the source frame ordinal (frame.index) and the embedding.
EmbeddedFrame(index, embedding) == [index |-> index, embedding |-> embedding]

\* cosine_similarity: the dot product of two normalised vectors.
CosineSimilarity(a, b) == (a[1] * b[1] + a[2] * b[2]) \div Scale

\* -------------------------------------------------------- segmentation.rs

\* A mutant of UpdateAnchor: the anchor follows the newest frame, with no
\* share of the old anchor.
UpdateAnchorReplace(current_anchor, new_embedding) == new_embedding

\* SemanticSegmenter::update_anchor: alpha = 0.9, then re-normalise.
UpdateAnchor(current_anchor, new_embedding) ==
    LET alpha   == 900
        updated == [c \in 1..2 |->
                      (alpha * current_anchor[c]
                         + (Scale - alpha) * new_embedding[c]) \div Scale]
        norm    == Sqrt(updated[1] * updated[1] + updated[2] * updated[2])
    IN  IF norm > 0
        THEN [c \in 1..2 |-> (updated[c] * Scale) \div norm]
        ELSE updated

\* A mutant of CreateSegment: the representative is the member below the
\* midpoint, (n - 1) / 2.
CreateSegmentLowMid(index, frames, start_idx) ==
    [index                |-> index,
     start_frame_idx      |-> frames[1].index,
     end_frame_idx        |-> frames[Len(frames)].index,
     representative_frame |-> frames[((Len(frames) - 1) \div 2) + 1],
     frame_count          |-> Len(frames)]

\* A mutant of CreateSegment: the start is the position start_idx in the
\* sampled sequence and the end is that position plus the length.
CreateSegmentByPosition(index, frames, start_idx) ==
    [index                |-> index,
     start_frame_idx      |-> start_idx,
     end_frame_idx        |-> start_idx + Len(frames) - 1,
     representative_frame |-> frames[(Len(frames) \div 2) + 1],
     frame_count          |-> Len(frames)]

\* A mutant of CreateSegment: the index is one-based.
CreateSegmentOneBased(index, frames, start_idx) ==
    [index                |-> index + 1,
     start_frame_idx      |-> frames[1].index,
     end_frame_idx        |-> frames[Len(frames)].index,
     representative_frame |-> frames[(Len(frames) \div 2) + 1],
     frame_count          |-> Len(frames)]

\* SemanticSegmenter::create_segment.  frames is 1-based here, so the
\* source's frames[k] is frames[k + 1]; start_idx is not used by the source.
CreateSegment(index, frames, start_idx) ==
    LET representative_idx == Len(frames) \div 2
    IN  [index                |-> index,
         start_frame_idx      |-> frames[1].index,
         end_frame_idx        |-> frames[Len(frames)].index,
         representative_frame |-> frames[representative_idx + 1],
         frame_count          |-> Len(frames)]

\* A mutant of IsBreak: the current frame is counted towards the minimum
\* length of the open segment.
IsBreakCountingCurrent(detail, anchor, frames, current_frame) ==
    LET similarity == CosineSimilarity(anchor, current_frame.embedding)
        is_semantic_change == similarity < SimilarityThreshold(detail)
        has_min_frames == Len(frames) + 1 >= MinSegmentFrames(detail)
    IN  is_semantic_change /\ has_min_frames

\* A mutant of IsBreak: either condition alone declares a break.
IsBreakEither(detail, anchor, frames, current_frame) ==
    \/ CosineSimilarity(anchor, current_frame.embedding) < SimilarityThreshold(detail)
    \/ Len(frames) >= MinSegmentFrames(detail)

\* segment, the loop's test: is_semantic_change && has_min_frames.
IsBreak(detail, anchor, frames, current_frame) ==
    LET similarity         == CosineSimilarity(anchor, current_frame.embedding)
        is_semantic_change == similarity < SimilarityThreshold(detail)
        has_min_frames     == Len(frames) >= MinSegmentFrames(detail)
    IN  is_semantic_change /\ has_min_frames

\* The locals of segment: the segments closed so far, the open segment's
\* start position and members, the anchor, and `members`, a history of the
\* member list every closed segment was created from.
SegLocals(segs, start_idx, frames, anchor, mem) ==
    [segments          |-> segs,
     segment_start_idx |-> start_idx,
     segment_frames    |-> frames,
     anchor_embedding  |-> anchor,
     members           |-> mem]

\* A mutant of SegEnter: the open segment starts without the first frame.
SegEnterWithoutFirst(first_frame) ==
    SegLocals(<<>>, 0, <<>>, first_frame.embedding, <<>>)

\* segment, before the loop: the first frame opens the first segment.
SegEnter(first_frame) ==
    SegLocals(<<>>, 0, <<first_frame>>, first_frame.embedding, <<>>)

\* segment, one iteration of the loop on current_frame at position i.
SegIterate(detail, s, i, current_frame) ==
    IF IsBreak(detail, s.anchor_embedding, s.segment_frames, current_frame)
    THEN SegLocals(
            Append(s.segments,
                   CreateSegment(Len(s.segments), s.segment_frames,
                                 s.segment_start_idx)),
            i,
            <<current_frame>>,
            current_frame.embedding,
            Append(s.members, s.segment_frames))
    ELSE SegLocals(
            s.segments,
            s.segment_start_idx,
            Append(s.segment_frames, current_frame),
            UpdateAnchor(s.anchor_embedding, current_frame.embedding),
            s.members)

\* A mutant of SegLeave: the open segment is dropped at the end.
SegLeaveDropLast(s) ==
    SegLocals(s.segments, s.segment_start_idx, <<>>, s.anchor_embedding,
              s.members)

\* segment, after the loop: the open segment is closed when it has members.
SegLeave(s) ==
    IF s.segment_frames # <<>>
    THEN SegLocals(
            Append(s.segments,
                   CreateSegment(Len(s.segments), s.segment_frames,
                                 s.segment_start_idx)),
            s.segment_start_idx,
            <<>>,
            s.anchor_embedding,
            Append(s.members, s.segment_frames))
    ELSE s

RECURSIVE SegLoop(_, _, _, _)
\* The loop of segment from position i (0-based) to the end of frames.
SegLoop(detail, s, i, frames) ==
    IF i >= Len(frames) THEN s
    ELSE SegLoop(detail, SegIterate(detail, s, i, frames[i + 1]), i + 1, frames)

\* SemanticSegmenter::segment as a function of its input.
Segment(detail, frames) ==
    IF frames = <<>> THEN <<>>
    ELSE SegLeave(SegLoop(detail, SegEnter(frames[1]), 1, frames)).segments

\* The calls segment makes to its progress callback: cb(i + 1, len), the
\* first argument recorded.
SegProgress(callback, calls, current) ==
    IF callback = "Some" THEN Append(calls, current) ELSE calls

\* ---------------------------------------------------- video.rs (sampling)

\* error.rs, SUPPORTED_FORMATS: each format as its sequence of characters.
SUPPORTED_FORMATS ==
    {<<"m", "p", "4">>, <<"a", "v", "i">>, <<"m", "o", "v">>, <<"m", "k", "v">>,
     <<"w", "e", "b", "m">>, <<"m", "4", "v">>, <<"f", "l", "v">>,
     <<"w", "m", "v">>, <<"m", "p", "e", "g">>, <<"m", "p", "g">>}

\* The letters, upper case and lower case, place by place.
UpperCase ==
    <<"A", "B", "C", "D", "E", "F", "G", "H", "I", "J", "K", "L", "M",
      "N", "O", "P", "Q", "R", "S", "T", "U", "V", "W", "X", "Y", "Z">>

LowerCase ==
    <<"a", "b", "c", "d", "e", "f", "g", "h", "i", "j", "k", "l", "m",
      "n", "o", "p", "q", "r", "s", "t", "u", "v", "w", "x", "y", "z">>

\* str::to_lowercase on an extension: upper-case letters become lower
\* case, every other character stays.
ToLowercase(extension) ==
    [i \in 1..Len(extension) |->
        IF \E j \in 1..Len(UpperCase) : UpperCase[j] = extension[i]
        THEN LowerCase[CHOOSE j \in 1..Len(UpperCase) : UpperCase[j] = extension[i]]
        ELSE extension[i]]

\* A video file: what validate_file sees of the path (the extension as its
\* sequence of characters, empty when the path has none), whether the capture
\* opens, the frame count the container reports, the number of frames
\* cap.read yields before it first returns false, and the source index at
\* which the content changes.
Video(exists, is_file, extension, opens, frame_count, decodable, cut) ==
    [exists       |-> exists,
     is_file      |-> is_file,
     extension    |-> extension,
     opens        |-> opens,
     frame_count  |-> frame_count,
     decodable    |-> decodable,
     cut          |-> cut]

NoVideo == Video(FALSE, FALSE, <<>>, FALSE, 0, 0, 0)

\* The extensions of the paths process is run on: supported ones in lower,
\* upper and mixed case, unsupported ones, and none.
Extensions ==
    {<<"m", "p", "4">>, <<"M", "P", "4">>, <<"M", "o", "v">>, <<"W", "E", "B", "M">>,
     <<"t", "x", "t">>, <<"M", "P", "3">>, <<"m", "p">>, <<>>}

\* The files process is run on: a missing path and a directory of any
\* extension, a file of any extension that opens and decodes a frame, a
\* file that does not open, and files that decode d frames of which those
\* from `cut` on show other content; the container reports d frames, or
\* more when decoding stops early.
Videos ==
    {Video(FALSE, FALSE, e, FALSE, 0, 0, 0) : e \in Extensions}
    \cup {Video(TRUE, FALSE, e, FALSE, 0, 0, 0) : e \in Extensions}
    \cup {Video(TRUE, TRUE, e, TRUE, 1, 1, 0) : e \in Extensions}
    \cup {Video(TRUE, TRUE, <<"m", "p", "4">>, FALSE, 0, 0, 0)}
    \cup UNION {{Video(TRUE, TRUE, <<"m", "p", "4">>, TRUE, n, d, c) :
                    n \in {d, MaxDecoded}, c \in 0..d} : d \in 0..MaxDecoded}

\* A mutant of validate_file: the format is checked before the path.
ValidateFileFormatFirst(v) ==
    IF ToLowercase(v.extension) \notin SUPPORTED_FORMATS THEN "UnsupportedFormat"
    ELSE IF ~v.exists THEN "VideoNotFound"
    ELSE IF ~v.is_file THEN "VideoNotFound"
    ELSE "ok"

\* VideoLoader::validate_file.
ValidateFile(v) ==
    IF ~v.exists THEN "VideoNotFound"
    ELSE IF ~v.is_file THEN "VideoNotFound"
    ELSE IF ToLowercase(v.extension) \notin SUPPORTED_FORMATS THEN "UnsupportedFormat"
    ELSE "ok"

\* Frame: the source frame ordinal (timestamp and pixels are functions of it).
Frame(index) == [index |-> index]

RECURSIVE ExtractLoopSampleOrdinal(_, _, _, _)
\* A mutant of ExtractLoop: a frame is numbered by its place among the
\* frames kept.
ExtractLoopSampleOrdinal(frames, frame_index, decodable, sample_rate) ==
    IF frame_index >= decodable THEN frames
    ELSE ExtractLoopSampleOrdinal(
            IF frame_index % sample_rate = 0
            THEN Append(frames, Frame(Len(frames)))
            ELSE frames,
            frame_index + 1, decodable, sample_rate)

RECURSIVE ExtractLoop(_, _, _, _)
\* extract_frames, the loop: cap.read succeeds `decodable` times; a frame is
\* kept when frame_index is a multiple of sample_rate.
ExtractLoop(frames, frame_index, decodable, sample_rate) ==
    IF frame_index >= decodable THEN frames
    ELSE ExtractLoop(
            IF frame_index % sample_rate = 0
            THEN Append(frames, Frame(frame_index))
            ELSE frames,
            frame_index + 1, decodable, sample_rate)

\* extract_frames: the frames returned, and the calls to its callback
\* (one per decoded frame: cb(frame_index, total_frames)).
ExtractFramesOf(v, preset) == ExtractLoop(<<>>, 0, v.decodable, FrameSampleRate(preset))

ExtractCalls(cb, v) ==
    IF cb = "Some"
    THEN [k \in 1..v.decodable |-> <<"extract_frames", k, v.frame_count>>]
    ELSE <<>>

\* ------------------------------------------------ embeddings.rs (stage)

\* QualityPreset::embedding_batch_size.
EmbeddingBatchSize(preset) ==
    CASE preset = "Fast"     -> 64
      [] preset = "Balanced" -> 32
      [] preset = "Best"     -> 16

\* The embedding provider on the frame of source index `index` of v.
Content(v, index) == IF index < v.cut THEN EmbA ELSE EmbB

\* compute_embeddings_batch: one EmbeddedFrame per frame, in order.
EmbedFrames(v, frames) ==
    [k \in 1..Len(frames) |-> EmbeddedFrame(frames[k].index, Content(v, frames[k].index))]

\* The calls compute_embeddings_batch makes to its callback: after each
\* chunk of batch_size frames, cb(results.len(), frames.len()).
EmbedCalls(cb, frames, preset) ==
    IF cb = "Some"
    THEN LET size    == EmbeddingBatchSize(preset)
             batches == (Len(frames) + size - 1) \div size
         IN  [b \in 1..batches |->
                <<"compute_embeddings_batch",
                  IF b * size < Len(frames) THEN b * size ELSE Len(frames),
                  Len(frames)>>]
    ELSE <<>>

\* The calls segment makes to its callback: cb(i + 1, len) for i in 1..len-1.
SegmentCalls(cb, frames) ==
    IF cb = "Some" /\ Len(frames) > 0
    THEN [i \in 1..(Len(frames) - 1) |-> <<"segment", i + 1, Len(frames)>>]
    ELSE <<>>

\* ---------------------------------------- embeddings.rs (batch by batch)

\* The number of components of the vector the provider gives per frame.
EmbeddingDim == 2

\* The provider (the ONNX session) on one frame: a vector in the direction
\* of the frame's content, not of unit length.
Provider(v, frame) ==
    [c \in 1..EmbeddingDim |-> 2 * Content(v, frame.index)[c]]

RECURSIVE SumOfSquares(_)
SumOfSquares(vec) ==
    IF vec = <<>> THEN 0
    ELSE vec[1] * vec[1] + SumOfSquares(Tail(vec))

\* normalize_vector.
NormalizeVector(vec) ==
    LET norm == Sqrt(SumOfSquares(vec))
    IN  IF norm > 0
        THEN [c \in 1..Len(vec) |-> (vec[c] * Scale) \div norm]
        ELSE vec

RECURSIVE Flatten(_)
\* The rows of a tensor laid out one after the other.
Flatten(rows) ==
    IF rows = <<>> THEN <<>> ELSE rows[1] \o Flatten(Tail(rows))

\* What try_extract_tensor gives: the shape and the flat data.
Tensor(shape, data) == [shape |-> shape, data |-> data]

\* session.run on a chunk, when it returns a tensor.  "ok": one row per
\* frame of the chunk; "rows": the last row is missing; "flat": the same
\* data under a shape of one dimension.
SessionRun(v, chunk, kind) ==
    LET rows == [i \in 1..Len(chunk) |-> Provider(v, chunk[i])]
    IN  CASE kind = "rows" ->
               Tensor(<<Len(chunk) - 1, EmbeddingDim>>,
                      Flatten(SubSeq(rows, 1, Len(chunk) - 1)))
          [] kind = "flat" ->
               Tensor(<<Len(chunk) * EmbeddingDim>>, Flatten(rows))
          [] OTHER ->
               Tensor(<<Len(chunk), EmbeddingDim>>, Flatten(rows))

RECURSIVE Product(_)
Product(dims) == IF dims = <<>> THEN 1 ELSE dims[1] * Product(Tail(dims))

\* embedding_size: shape.iter().skip(1).product().
EmbeddingSize(shape) == IF shape = <<>> THEN 1 ELSE Product(Tail(shape))

\* data.iter().skip(start).take(count): what is there of that range.
SkipTake(data, start, count) ==
    SubSeq(data, start + 1,
           IF start + count < Len(data) THEN start + count ELSE Len(data))

\* A mutant of EmbedChunk: the rows are counted from 1.
EmbedChunkOneBased(chunk, tensor) ==
    LET embedding_size == EmbeddingSize(tensor.shape)
    IN  [i \in 1..Len(chunk) |->
            EmbeddedFrame(chunk[i].index,
                NormalizeVector(SkipTake(tensor.data, i * embedding_size,
                                         embedding_size)))]

\* compute_embeddings_batch, the inner loop: frame i of the chunk (from 0)
\* gets the embedding_size values at i * embedding_size, normalized.
EmbedChunk(chunk, tensor) ==
    LET embedding_size == EmbeddingSize(tensor.shape)
    IN  [i \in 1..Len(chunk) |->
            EmbeddedFrame(chunk[i].index,
                NormalizeVector(SkipTake(tensor.data, (i - 1) * embedding_size,
                                         embedding_size)))]

\* frames.chunks(batch_size): the chunk that follows `done` frames.
NextChunk(frames, done, batch_size) ==
    SubSeq(frames, done + 1,
           IF done + batch_size < Len(frames) THEN done + batch_size ELSE Len(frames))

\* compute_embedding: one frame alone, the whole output normalized.
ComputeEmbedding(v, frame) ==
    EmbeddedFrame(frame.index, NormalizeVector(SessionRun(v, <<frame>>, "ok").data))

\* One call of compute_embeddings_batch: where it is, its input, the
\* tensors the session returned so far, the results and the error.
NotEmbedding ==
    [pc      |-> "idle",
     frames  |-> <<>>,
     tensors |-> <<>>,
     results |-> <<>>,
     error   |-> "none"]

\* ------------------------------------------------------------- output.rs

RECURSIVE Digits(_)
\* The decimal digits of n, most significant first.
Digits(n) == IF n < 10 THEN <<n>> ELSE Append(Digits(n \div 10), n % 10)

RECURSIVE ZeroPad(_, _)
ZeroPad(digits, width) ==
    IF Len(digits) >= width THEN digits ELSE ZeroPad(<<0>> \o digits, width)

\* A mutant of FileName: the frame number without padding.
FileNameUnpadded(frame_number) == Digits(frame_number)

\* write_frame's file name, format!("{:04}.{}", frame_number, "jpg"): the
\* digits before the extension.
FileName(frame_number) == ZeroPad(Digits(frame_number), 4)

\* write_frame's FrameMetadata for a segment written as frame_number.
FrameMetadata(segment, frame_number) ==
    [filename      |-> FileName(frame_number),
     segment_index |-> segment.index,
     frame_index   |-> segment.representative_frame.index]

\* A file write_frame leaves in the output directory: its name, the source
\* index of the frame whose pixels it encodes, and whether all of it is
\* there.
ImageFile(segment, frame_number, complete) ==
    [filename    |-> FileName(frame_number),
     frame_index |-> segment.representative_frame.index,
     complete    |-> complete]

\* write_metadata's OutputMetadata, as far as it depends on the run.
OutputMetadata(video_frame_count, frame_metadata) ==
    [video_frame_count |-> video_frame_count,
     extracted_frames  |-> Len(frame_metadata),
     frames            |-> frame_metadata]

\* The calls write_frames makes to its callback: cb(i + 1, len) per image.
WriteCalls(cb, written, total) ==
    IF cb = "Some"
    THEN [i \in 1..written |-> <<"write_frames", i, total>>]
    ELSE <<>>

\* ---------------------------------------------------------- processor.rs

\* The state of one call of process: where it is, the stage functions
\* called so far, the calls made to the progress callback and to the
\* callbacks of the stage functions, the locals, the output directory, and
\* the value returned.
NotRunning ==
    [pc             |-> "idle",
     trace          |-> <<>>,
     progress       |-> <<>>,
     calls          |-> <<>>,
     frame_count    |-> 0,
     frames         |-> <<>>,
     embedded       |-> <<>>,
     segments       |-> <<>>,
     frame_metadata |-> <<>>,
     images         |-> <<>>,
     manifest       |-> "absent",
     output_meta    |-> OutputMetadata(0, <<>>),
     error          |-> "none",
     result         |-> [total_frames_processed |-> 0,
                         segments_detected      |-> 0,
                         frames_extracted       |-> 0]]

Called == [NotRunning EXCEPT !.pc = "load"]

\* The callbacks process hands on: its own to report_progress, None to
\* extract_frames, compute_embeddings_batch, segment and write_frames.
ProcessCallbacks(progress_callback) ==
    [process                  |-> progress_callback,
     extract_frames           |-> "None",
     compute_embeddings_batch |-> "None",
     segment                  |-> "None",
     write_frames             |-> "None"]

\* An observer on every callback.
ObserverCallbacks ==
    [process                  |-> "Some",
     extract_frames           |-> "Some",
     compute_embeddings_batch |-> "Some",
     segment                  |-> "Some",
     write_frames             |-> "Some"]

\* SceneSplitProcessor::report_progress.
ReportProgress(cb, progress, stage, current, total) ==
    IF cb = "Some" THEN Append(progress, <<stage, current, total>>) ELSE progress

\* A mutant of Fail: the error is noted and the run carries on to its end.
FailAndGoOn(p, error) == [p EXCEPT !.pc = "complete", !.error = error]

\* The ? operator on an Err: process returns the error.
Fail(p, error) == [p EXCEPT !.pc = "failed", !.error = error]

\* What a collaborator does in one stage: the kind of outcome and, for the
\* image loop, the number of images written in full before it.
Outcome(kind, at) == [kind |-> kind, at |-> at]

\* Stage 1: report, then VideoLoader::new.
ProcessLoadVideo(p, cbs, v, o) ==
    LET q == [p EXCEPT
                !.progress = ReportProgress(cbs.process, @, "Loading video", 0, 4),
                !.trace    = Append(@, "VideoLoader::new")]
    IN  IF ValidateFile(v) # "ok"
        THEN Fail(q, ValidateFile(v))
        ELSE [q EXCEPT !.pc = "metadata"]

\* Stage 1: video.metadata(), which opens the capture.
ProcessMetadata(p, cbs, v, o) ==
    LET q == [p EXCEPT !.trace = Append(@, "VideoLoader::metadata")]
    IN  IF ~v.opens
        THEN Fail(q, "VideoDecode")
        ELSE IF o.kind = "error"
        THEN Fail(q, "OpenCV")
        ELSE [q EXCEPT !.pc = "extract", !.frame_count = v.frame_count]

\* A mutant of ProcessExtract: a source that stops decoding before the
\* frame count its container reports fails the stage.
ProcessExtractStrict(p, cbs, v, preset, o) ==
    LET q == [p EXCEPT
                !.progress = ReportProgress(cbs.process, @, "Extracting frames", 1, 4),
                !.trace    = Append(@, "extract_frames")]
    IN  IF o.kind = "open" \/ v.decodable < v.frame_count
        THEN Fail(q, "VideoDecode")
        ELSE IF o.kind = "error"
        THEN Fail(q, "OpenCV")
        ELSE [q EXCEPT
                !.pc     = "model",
                !.frames = ExtractFramesOf(v, preset),
                !.calls  = @ \o ExtractCalls(cbs.extract_frames, v)]

\* Stage 2: report, then extract_frames.  Outcomes: "open" (the capture
\* does not open this time), "error" (cap.read or the conversion fails),
\* "ok".
ProcessExtract(p, cbs, v, preset, o) ==
    LET q == [p EXCEPT
                !.progress = ReportProgress(cbs.process, @, "Extracting frames", 1, 4),
                !.trace    = Append(@, "extract_frames")]
    IN  IF o.kind = "open"
        THEN Fail(q, "VideoDecode")
        ELSE IF o.kind = "error"
        THEN Fail(q, "OpenCV")
        ELSE [q EXCEPT
                !.pc     = "model",
                !.frames = ExtractFramesOf(v, preset),
                !.calls  = @ \o ExtractCalls(cbs.extract_frames, v)]

\* Stage 3: report, then EmbeddingModel::new.
ProcessLoadModel(p, cbs, o) ==
    LET q == [p EXCEPT
                !.progress = ReportProgress(cbs.process, @, "Computing embeddings", 1, 4),
                !.trace    = Append(@, "EmbeddingModel::new")]
    IN  IF o.kind = "error"
        THEN Fail(q, "Onnx")
        ELSE [q EXCEPT !.pc = "embed"]

\* Stage 3: compute_embeddings_batch; an empty frame list returns at once.
\* Outcomes: "run" (session.run fails: an ort error), "tensor" (the frame
\* data or the output tensor cannot be read: Error::Embedding), "ok" (the
\* tensors have a row per frame; EmbedBatch has the others).
ProcessEmbed(p, cbs, v, preset, o) ==
    LET q == [p EXCEPT !.trace = Append(@, "compute_embeddings_batch")]
    IN  IF p.frames # <<>> /\ o.kind = "run"
        THEN Fail(q, "Onnx")
        ELSE IF p.frames # <<>> /\ o.kind = "tensor"
        THEN Fail(q, "Embedding")
        ELSE [q EXCEPT
                !.pc       = "segment",
                !.embedded = EmbedFrames(v, p.frames),
                !.calls    = @ \o EmbedCalls(cbs.compute_embeddings_batch,
                                             p.frames, preset)]

\* Stage 4: report, then segment.
ProcessSegment(p, cbs, level) ==
    [p EXCEPT
        !.progress = ReportProgress(cbs.process, @, "Detecting semantic changes", 2, 4),
        !.trace    = Append(@, "segment"),
        !.pc       = "write_frames",
        !.segments = Segment(level, p.embedded),
        !.calls    = @ \o SegmentCalls(cbs.segment, p.embedded)]

\* A mutant of ProcessWriteFrames: the metadata of a frame is pushed only
\* inside the callback's branch.
ProcessWriteFramesPushInCallback(p, cbs, o) ==
    LET n == Len(p.segments)
        q == [p EXCEPT
                !.progress = ReportProgress(cbs.process, @, "Writing output", 3, 4),
                !.trace    = Append(@, "write_frames")]
    IN  IF o.kind # "ok"
        THEN Fail(q, "Output")
        ELSE [q EXCEPT
                !.pc             = "write_metadata",
                !.images         = [k \in 1..n |-> ImageFile(p.segments[k], k, TRUE)],
                !.frame_metadata =
                    IF cbs.write_frames = "Some"
                    THEN [k \in 1..n |-> FrameMetadata(p.segments[k], k)]
                    ELSE <<>>,
                !.calls          = @ \o WriteCalls(cbs.write_frames, n, n)]

\* Stage 5: report, then write_frames.  Outcomes: "prepare" (the directory
\* cannot be created), "create" (File::create fails for image at + 1),
\* "encode" (that file is created and encoding it fails), "unflushed" (the
\* buffered tail of that file is lost when the writer is dropped, which
\* reports nothing), "ok".
ProcessWriteFrames(p, cbs, o) ==
    LET n == Len(p.segments)
        q == [p EXCEPT
                !.progress = ReportProgress(cbs.process, @, "Writing output", 3, 4),
                !.trace    = Append(@, "write_frames")]
        whole(k) == [j \in 1..k |-> ImageFile(p.segments[j], j, TRUE)]
    IN  CASE o.kind = "prepare" ->
               Fail(q, "Output")
          [] o.kind = "create" ->
               Fail([q EXCEPT
                       !.images = whole(o.at),
                       !.calls  = @ \o WriteCalls(cbs.write_frames, o.at, n)],
                    "Io")
          [] o.kind = "encode" ->
               Fail([q EXCEPT
                       !.images = Append(whole(o.at),
                                         ImageFile(p.segments[o.at + 1], o.at + 1, FALSE)),
                       !.calls  = @ \o WriteCalls(cbs.write_frames, o.at, n)],
                    "Output")
          [] OTHER ->
               [q EXCEPT
                   !.pc             = "write_metadata",
                   !.images         =
                       [k \in 1..n |->
                           ImageFile(p.segments[k], k,
                                     ~(o.kind = "unflushed" /\ k = o.at + 1))],
                   !.frame_metadata =
                       [k \in 1..n |-> FrameMetadata(p.segments[k], k)],
                   !.calls          = @ \o WriteCalls(cbs.write_frames, n, n)]

\* Stage 5: write_metadata.  Outcomes: "create" (File::create fails),
\* "serialize" (the file is created and writing the JSON fails),
\* "unflushed" (the buffered tail is lost when the writer is dropped), "ok".
ProcessWriteMetadata(p, cbs, o) ==
    LET q == [p EXCEPT
                !.trace       = Append(@, "write_metadata"),
                !.output_meta = OutputMetadata(p.frame_count, p.frame_metadata)]
    IN  CASE o.kind = "create"    -> Fail(q, "Io")
          [] o.kind = "serialize" -> Fail([q EXCEPT !.manifest = "partial"], "Output")
          [] o.kind = "unflushed" -> [q EXCEPT !.pc = "complete", !.manifest = "partial"]
          [] OTHER                -> [q EXCEPT !.pc = "complete", !.manifest = "complete"]

\* A mutant of ProcessComplete: the stages after the source is loaded are
\* run again instead of returning.
ProcessCompleteAgain(p, cbs) == [p EXCEPT !.pc = "extract"]

\* The end of process: report "Complete" and return the result.
ProcessComplete(p, cbs) ==
    [p EXCEPT
        !.progress = ReportProgress(cbs.process, @, "Complete", 4, 4),
        !.trace    = Append(@, "ProcessingResult"),
        !.pc       = "ok",
        !.result   = [total_frames_processed |-> Len(p.frames),
                      segments_detected      |-> Len(p.segments),
                      frames_extracted       |-> Len(p.segments)]]

\* One step of process from wherever p is, under outcome o.
ProcessStep(p, cbs, v, preset, level, o) ==
    CASE p.pc = "load"           -> ProcessLoadVideo(p, cbs, v, o)
      [] p.pc = "metadata"       -> ProcessMetadata(p, cbs, v, o)
      [] p.pc = "extract"        -> ProcessExtract(p, cbs, v, preset, o)
      [] p.pc = "model"          -> ProcessLoadModel(p, cbs, o)
      [] p.pc = "embed"          -> ProcessEmbed(p, cbs, v, preset, o)
      [] p.pc = "segment"        -> ProcessSegment(p, cbs, level)
      [] p.pc = "write_frames"   -> ProcessWriteFrames(p, cbs, o)
      [] p.pc = "write_metadata" -> ProcessWriteMetadata(p, cbs, o)
      [] p.pc = "complete"       -> ProcessComplete(p, cbs)
      [] OTHER                   -> p

\* The outcomes a collaborator can have at the stage p is at.
Outcomes(p) ==
    CASE p.pc \in {"metadata", "model"} ->
             {Outcome("ok", 0), Outcome("error", 0)}
      [] p.pc = "extract" ->
             {Outcome("ok", 0), Outcome("open", 0), Outcome("error", 0)}
      [] p.pc = "embed" ->
             IF p.frames = <<>> THEN {Outcome("ok", 0)}
             ELSE {Outcome("ok", 0), Outcome("run", 0), Outcome("tensor", 0)}
      [] p.pc = "write_frames" ->
             {Outcome("ok", 0), Outcome("prepare", 0)}
             \cup {Outcome(kind, at) :
                     kind \in {"create", "encode", "unflushed"},
                     at \in 0..(Len(p.segments) - 1)}
      [] p.pc = "write_metadata" ->
             {Outcome(kind, 0) : kind \in {"ok", "create", "serialize", "unflushed"}}
      [] OTHER -> {Outcome("ok", 0)}

\* --------------------------------------------------------------- model.rs

\* The number of reads of the response body that return data: the model
\* file is the chunks 1..ModelChunks in this order.
ModelChunks == 3

\* The number of calls of ensure_model, one after the other.
MaxInvocations == 2

\* The bytes of the model file as the server sends them.
CompleteModel == [k \in 1..ModelChunks |-> k]

\* dest: cache_dir()/MODEL_FILENAME.
ModelPath == "model"

\* A mutant of TempPath: the download is written to dest itself.
TempPathIsDest == ModelPath

\* temp_path: dest.with_extension("tmp").
TempPath == "tmp"

\* The cache directory: whether it exists, the file (by number, 0 for
\* none) at each of the two paths, and the content of every file; a 0 in a
\* content is a chunk that was not written in full.
EmptyCache ==
    [dir   |-> FALSE,
     paths |-> [model |-> 0, tmp |-> 0],
     files |-> <<>>]

\* One call of ensure_model: where it is, the file its handle is open on,
\* the chunks downloaded, and what it returned.
NotCalled == [pc |-> "idle", fd |-> 0, downloaded |-> 0, result |-> "none"]

\* model_path.exists().
Exists(c, path) == c.paths[path] # 0

\* File::create(path): the file at the path emptied, or a new empty file.
FileCreate(c, path) ==
    IF Exists(c, path)
    THEN [c EXCEPT !.files[c.paths[path]] = <<>>]
    ELSE [c EXCEPT !.files = Append(@, <<>>),
                   !.paths[path] = Len(c.files) + 1]

\* file.write_all of one chunk at the handle's position (the chunks written
\* through it so far); the file grows with holes when it is shorter.
WriteAll(c, fd, position, chunk) ==
    LET old    == c.files[fd]
        length == IF Len(old) > position + 1 THEN Len(old) ELSE position + 1
    IN  [c EXCEPT !.files[fd] =
            [k \in 1..length |->
                IF k = position + 1 THEN chunk
                ELSE IF k <= Len(old) THEN old[k]
                ELSE 0]]

\* fs::rename(from, to), the source being there.
Rename(c, from, to) ==
    IF from = to THEN c
    ELSE [c EXCEPT !.paths[to] = c.paths[from], !.paths[from] = 0]

\* The call has ended: it returned, failed, or its process died.
Ended(invocation) == invocation.pc \in {"returned", "failed", "crashed"}

\* An Err(Error::ModelLoad) returned through ?.
ModelLoadError(invocation) ==
    [invocation EXCEPT !.pc = "failed", !.result = "ModelLoad"]

\* ------------------------------------------- segment, one step at a time

VARIABLES
    detail,            \* the detail level of the segmenter
    seg_callback,      \* progress_callback: "None" or "Some"
    order,             \* how the input's source indices run
    embedded_frames,   \* the input, as far as the loop has read it
    seg_pc,            \* "call", "loop" or "done"
    seg,               \* the locals of segment (SegLocals)
    seg_calls          \* the calls made to the progress callback

VARIABLES
    quality,           \* the quality preset of the processor
    video,             \* the file at video_path and what its source decodes
    callback,          \* process's progress_callback: "None" or "Some"
    run,               \* process, as SceneSplitProcessor::process runs it
    twin               \* the same stages with an observer on every callback

VARIABLES
    emb                \* compute_embeddings_batch, batch by batch

VARIABLES
    cache,             \* the model cache directory on disk
    ensure             \* the calls of ensure_model, by number

segVars == <<seg_callback, order, embedded_frames, seg_pc, seg, seg_calls>>

pipeVars == <<quality, video, callback, run, twin>>

embedVars == <<emb>>

modelVars == <<cache, ensure>>

vars == <<detail, seg_callback, order, embedded_frames, seg_pc, seg,
          seg_calls, quality, video, callback, run, twin, emb, cache, ensure>>

\* No call of ensure_model has been made.
NoInvocations == [i \in 1..MaxInvocations |-> NotCalled]

\* The source index of the frame at position pos (0-based) of the input:
\* every fifth source frame, as extract_frames samples at the balanced
\* preset, or the same indices in falling order (segment takes any slice).
SourceIndex(ord, pos) ==
    IF ord = "ascending"
    THEN pos * FrameSampleRate("Balanced")
    ELSE (MaxFrames + 1 - pos) * FrameSampleRate("Balanced")

RECURSIVE Changes(_)
\* The number of positions of frames whose embedding differs from the
\* one before.
Changes(frames) ==
    IF Len(frames) <= 1 THEN 0
    ELSE Changes(SubSeq(frames, 1, Len(frames) - 1))
         + (IF frames[Len(frames)].embedding # frames[Len(frames) - 1].embedding
            THEN 1 ELSE 0)

\* segment reads its slice front to back and never looks ahead, so the
\* input is drawn one frame at a time, when the loop reaches it, and it
\* ends where SegmentReturn (or SegmentEmpty) is taken.  The frames that
\* may follow the input read so far:
NextFrames ==
    {f \in {EmbeddedFrame(SourceIndex(order, Len(embedded_frames)), e) :
               e \in Embeddings} :
        Changes(Append(embedded_frames, f)) <= MaxChanges}

NoLocals == SegLocals(<<>>, 0, <<>>, <<0, 0>>, <<>>)

SegInit ==
    /\ quality = "Balanced"
    /\ video = NoVideo
    /\ callback = "None"
    /\ run = NotRunning
    /\ twin = NotRunning
    /\ detail \in DetailLevels
    /\ seg_callback \in {"None", "Some"}
    /\ order \in {"ascending", "descending"}
    /\ embedded_frames = <<>>
    /\ seg_pc = "call"
    /\ seg = NoLocals
    /\ seg_calls = <<>>
    /\ emb = NotEmbedding
    /\ cache = EmptyCache
    /\ ensure = NoInvocations

\* A mutant of SegmentEmpty: no early return, so the empty open segment is
\* closed as a segment of no frames and the callback hears of it.
SegmentEmptyClosesSegment ==
    /\ seg_pc = "call"
    /\ seg_pc' = "done"
    /\ seg' = [seg EXCEPT !.segments =
                  <<[index                |-> 0,
                     start_frame_idx      |-> 0,
                     end_frame_idx        |-> 0,
                     representative_frame |-> EmbeddedFrame(0, <<0, 0>>),
                     frame_count          |-> 0]>>]
    /\ seg_calls' = SegProgress(seg_callback, seg_calls, 0)
    /\ UNCHANGED <<detail, seg_callback, order, embedded_frames>>
    /\ UNCHANGED <<pipeVars, embedVars, modelVars>>

\* segment on an empty slice: the early return.
SegmentEmpty ==
    /\ seg_pc = "call"
    /\ seg_pc' = "done"
    /\ UNCHANGED <<detail, seg_callback, order, embedded_frames, seg, seg_calls>>
    /\ UNCHANGED <<pipeVars, embedVars, modelVars>>

\* segment on a non-empty slice: the locals before the loop.
SegmentBegin ==
    /\ seg_pc = "call"
    /\ \E f \in NextFrames :
         /\ embedded_frames' = <<f>>
         /\ seg' = SegEnter(f)
    /\ seg_pc' = "loop"
    /\ UNCHANGED <<detail, seg_callback, order, seg_calls>>
    /\ UNCHANGED <<pipeVars, embedVars, modelVars>>

\* One iteration of the loop, the progress callback included.
SegmentStep ==
    /\ seg_pc = "loop"
    /\ Len(embedded_frames) < MaxFrames
    /\ \E f \in NextFrames :
         LET i == Len(embedded_frames)
         IN  /\ embedded_frames' = Append(embedded_frames, f)
             /\ seg' = SegIterate(detail, seg, i, f)
             /\ seg_calls' = SegProgress(seg_callback, seg_calls, i + 1)
    /\ UNCHANGED <<detail, seg_callback, order, seg_pc>>
    /\ UNCHANGED <<pipeVars, embedVars, modelVars>>

\* The end of the slice: the open segment is closed and segments returned.
SegmentReturn ==
    /\ seg_pc = "loop"
    /\ seg' = SegLeave(seg)
    /\ seg_pc' = "done"
    /\ UNCHANGED <<detail, seg_callback, order, embedded_frames, seg_calls>>
    /\ UNCHANGED <<pipeVars, embedVars, modelVars>>

SegNext == SegmentEmpty \/ SegmentBegin \/ SegmentStep \/ SegmentReturn

SegSpec == SegInit /\ [][SegNext]_vars

\* ------------------------------------------------ process, stage by stage

Init ==
    /\ detail \in DetailLevels
    /\ quality \in QualityPresets
    /\ video \in Videos
    /\ callback \in {"None", "Some"}
    /\ run = Called
    /\ twin = Called
    /\ seg_callback = "None"
    /\ order = "ascending"
    /\ embedded_frames = <<>>
    /\ seg_pc = "idle"
    /\ seg = NoLocals
    /\ seg_calls = <<>>
    /\ emb = NotEmbedding
    /\ cache = EmptyCache
    /\ ensure = NoInvocations

\* run takes the step of its stage under outcome o; twin takes its own
\* step under the same outcome.
Stage(pc, o) ==
    /\ run.pc = pc
    /\ run' = ProcessStep(run, ProcessCallbacks(callback), video, quality, detail, o)
    /\ twin' = ProcessStep(twin, ObserverCallbacks, video, quality, detail, o)
    /\ UNCHANGED <<detail, quality, video, callback>>
    /\ UNCHANGED <<segVars, embedVars, modelVars>>

LoadVideo == \E o \in Outcomes(run) : Stage("load", o)

ReadMetadata == \E o \in Outcomes(run) : Stage("metadata", o)

ExtractFrames == \E o \in Outcomes(run) : Stage("extract", o)

LoadModel == \E o \in Outcomes(run) : Stage("model", o)

ComputeEmbeddings == \E o \in Outcomes(run) : Stage("embed", o)

SegmentFrames == \E o \in Outcomes(run) : Stage("segment", o)

WriteFrames == \E o \in Outcomes(run) : Stage("write_frames", o)

WriteMetadata == \E o \in Outcomes(run) : Stage("write_metadata", o)

Complete == \E o \in Outcomes(run) : Stage("complete", o)

Next ==
    \/ LoadVideo
    \/ ReadMetadata
    \/ ExtractFrames
    \/ LoadModel
    \/ ComputeEmbeddings
    \/ SegmentFrames
    \/ WriteFrames
    \/ WriteMetadata
    \/ Complete

Spec == Init /\ [][Next]_vars

\* ---------------------------------- compute_embeddings_batch, by batch

\* The frames extract_frames returns when it keeps n of them: those of
\* the source indices 0, stride, 2 * stride, ...
SampledFrames(n, preset) ==
    [k \in 1..n |-> Frame((k - 1) * FrameSampleRate(preset))]

\* The number of frames of v that extract_frames keeps at the preset.
SampledCount(v, preset) ==
    (v.decodable + FrameSampleRate(preset) - 1) \div FrameSampleRate(preset)

\* The videos whose frames are embedded: n frames sampled at the stride of
\* the preset, the content changing at the frame of position `change`.
EmbedVideos(preset) ==
    UNION {{Video(TRUE, TRUE, <<"m", "p", "4">>, TRUE,
                  (n - 1) * FrameSampleRate(preset) + 1,
                  (n - 1) * FrameSampleRate(preset) + 1,
                  change * FrameSampleRate(preset)) : change \in 0..n} :
             n \in 1..MaxEmbedFrames}
    \cup {Video(TRUE, TRUE, <<"m", "p", "4">>, TRUE, 0, 0, 0)}

\* compute_embeddings_batch is called by process, without a callback, on
\* the frames extract_frames returned.
EmbedInit ==
    /\ detail = "Summary"
    /\ seg_callback = "None"
    /\ order = "ascending"
    /\ embedded_frames = <<>>
    /\ seg_pc = "idle"
    /\ seg = NoLocals
    /\ seg_calls = <<>>
    /\ callback = "None"
    /\ run = NotRunning
    /\ twin = NotRunning
    /\ cache = EmptyCache
    /\ ensure = NoInvocations
    /\ quality \in QualityPresets
    /\ video \in EmbedVideos(quality)
    /\ emb = [NotEmbedding EXCEPT
                !.pc     = "call",
                !.frames = SampledFrames(SampledCount(video, quality), quality)]

\* frames.is_empty(): Ok(Vec::new()) at once.
EmbedNothing ==
    /\ emb.pc = "call"
    /\ emb.frames = <<>>
    /\ emb' = [emb EXCEPT !.pc = "returned"]
    /\ UNCHANGED <<detail, segVars, pipeVars, modelVars>>

\* One chunk of the loop over frames.chunks(batch_size).  The frames are
\* preprocessed, the session is run and its output read, each of which can
\* fail; otherwise every frame of the chunk gets its embedding from the
\* tensor, whatever the tensor's shape.
EmbedBatch ==
    /\ emb.pc \in {"call", "batches"}
    /\ Len(emb.results) < Len(emb.frames)
    /\ \E kind \in {"preprocess", "run", "extract", "ok", "rows", "flat"} :
         LET chunk  == NextChunk(emb.frames, Len(emb.results),
                                 EmbeddingBatchSize(quality))
             tensor == SessionRun(video, chunk, kind)
         IN  emb' =
               CASE kind \in {"preprocess", "extract"} ->
                      [emb EXCEPT !.pc = "failed", !.error = "Embedding"]
                 [] kind = "run" ->
                      [emb EXCEPT !.pc = "failed", !.error = "Onnx"]
                 [] OTHER ->
                      [emb EXCEPT
                          !.pc      = "batches",
                          !.tensors = Append(@, tensor),
                          !.results = @ \o EmbedChunk(chunk, tensor)]
    /\ UNCHANGED <<detail, segVars, pipeVars, modelVars>>

\* The chunks are used up: Ok(results).
EmbedReturn ==
    /\ emb.pc = "batches"
    /\ Len(emb.results) >= Len(emb.frames)
    /\ emb' = [emb EXCEPT !.pc = "returned"]
    /\ UNCHANGED <<detail, segVars, pipeVars, modelVars>>

EmbedNext == EmbedNothing \/ EmbedBatch \/ EmbedReturn

EmbedSpec == EmbedInit /\ [][EmbedNext]_vars

\* ------------------------------------------- ensure_model, call after call

\* The cache is empty and no call has been made.
ModelInit ==
    /\ detail = "Summary"
    /\ seg_callback = "None"
    /\ order = "ascending"
    /\ embedded_frames = <<>>
    /\ seg_pc = "idle"
    /\ seg = NoLocals
    /\ seg_calls = <<>>
    /\ quality = "Balanced"
    /\ video = NoVideo
    /\ callback = "None"
    /\ run = NotRunning
    /\ twin = NotRunning
    /\ emb = NotEmbedding
    /\ cache = EmptyCache
    /\ ensure = NoInvocations

\* Call i may begin: the calls before it have ended.
CanStart(i) ==
    /\ ensure[i].pc = "idle"
    /\ \A j \in 1..(i - 1) : Ended(ensure[j])

\* ensure_model: the cached path is returned when a file is there,
\* otherwise the model is to be downloaded.
EnsureModel(i) ==
    /\ CanStart(i)
    /\ ensure' = [ensure EXCEPT ![i] =
                    IF Exists(cache, ModelPath)
                    THEN [@ EXCEPT !.pc = "returned", !.result = "path"]
                    ELSE [@ EXCEPT !.pc = "mkdir"]]
    /\ UNCHANGED cache
    /\ UNCHANGED <<detail, segVars, pipeVars, embedVars>>

\* fs::create_dir_all(&cache), which can fail.
CreateCacheDir(i) ==
    /\ ensure[i].pc = "mkdir"
    /\ \/ /\ cache' = [cache EXCEPT !.dir = TRUE]
          /\ ensure' = [ensure EXCEPT ![i].pc = "get"]
       \/ /\ ensure' = [ensure EXCEPT ![i] = ModelLoadError(@)]
          /\ UNCHANGED cache
    /\ UNCHANGED <<detail, segVars, pipeVars, embedVars>>

\* download_model: ureq::get(url).call(), which can fail.
HttpGet(i) ==
    /\ ensure[i].pc = "get"
    /\ \/ ensure' = [ensure EXCEPT ![i].pc = "create"]
       \/ ensure' = [ensure EXCEPT ![i] = ModelLoadError(@)]
    /\ UNCHANGED cache
    /\ UNCHANGED <<detail, segVars, pipeVars, embedVars>>

\* File::create(&temp_path), which can fail.
CreateTemp(i) ==
    /\ ensure[i].pc = "create"
    /\ \/ /\ cache' = FileCreate(cache, TempPath)
          /\ ensure' = [ensure EXCEPT ![i] =
                          [@ EXCEPT !.pc = "read",
                                    !.fd = FileCreate(cache, TempPath).paths[TempPath],
                                    !.downloaded = 0]]
       \/ /\ ensure' = [ensure EXCEPT ![i] = ModelLoadError(@)]
          /\ UNCHANGED cache
    /\ UNCHANGED <<detail, segVars, pipeVars, embedVars>>

\* One round of the loop while the body has data: the read fails, or the
\* chunk is written, or write_all fails with the chunk written in part.
DownloadChunk(i) ==
    /\ ensure[i].pc = "read"
    /\ ensure[i].downloaded < ModelChunks
    /\ \/ /\ ensure' = [ensure EXCEPT ![i] = ModelLoadError(@)]
          /\ UNCHANGED cache
       \/ /\ cache' = WriteAll(cache, ensure[i].fd, ensure[i].downloaded,
                               ensure[i].downloaded + 1)
          /\ ensure' = [ensure EXCEPT ![i].downloaded = @ + 1]
       \/ /\ cache' = WriteAll(cache, ensure[i].fd, ensure[i].downloaded, 0)
          /\ ensure' = [ensure EXCEPT ![i] = ModelLoadError(@)]
    /\ UNCHANGED <<detail, segVars, pipeVars, embedVars>>

\* The round at the end of the body: the read returns 0 and the loop is
\* left, or the read fails.  The reader reports the end only where the
\* body ends: a connection lost before that is a read error.
EndOfBody(i) ==
    /\ ensure[i].pc = "read"
    /\ ensure[i].downloaded = ModelChunks
    /\ \/ ensure' = [ensure EXCEPT ![i].pc = "rename"]
       \/ ensure' = [ensure EXCEPT ![i] = ModelLoadError(@)]
    /\ UNCHANGED cache
    /\ UNCHANGED <<detail, segVars, pipeVars, embedVars>>

\* fs::rename(&temp_path, dest), which fails when the temporary file is
\* gone and can fail otherwise; then ensure_model returns the path.
RenameTemp(i) ==
    /\ ensure[i].pc = "rename"
    /\ \/ /\ Exists(cache, TempPath)
          /\ cache' = Rename(cache, TempPath, ModelPath)
          /\ ensure' = [ensure EXCEPT ![i] =
                          [@ EXCEPT !.pc = "returned", !.result = "path"]]
       \/ /\ ensure' = [ensure EXCEPT ![i] = ModelLoadError(@)]
          /\ UNCHANGED cache
    /\ UNCHANGED <<detail, segVars, pipeVars, embedVars>>

\* The process dies in the middle of the call: the files stay as they are.
Crash(i) ==
    /\ ensure[i].pc \in {"mkdir", "get", "create", "read", "rename"}
    /\ ensure' = [ensure EXCEPT ![i].pc = "crashed"]
    /\ UNCHANGED cache
    /\ UNCHANGED <<detail, segVars, pipeVars, embedVars>>

ModelNext ==
    \E i \in 1..MaxInvocations :
        \/ EnsureModel(i)
        \/ CreateCacheDir(i)
        \/ HttpGet(i)
        \/ CreateTemp(i)
        \/ DownloadChunk(i)
        \/ EndOfBody(i)
        \/ RenameTemp(i)
        \/ Crash(i)

ModelSpec == ModelInit /\ [][ModelNext]_vars

\* ------------------------------------------- ensure_model, calls at once

\* ensure_model entered while other calls are under way: nothing in
\* model.rs keeps two calls apart, and each tests model_path.exists() on
\* its own.
EnsureModelConcurrently(i) ==
    /\ ensure[i].pc = "idle"
    /\ ensure' = [ensure EXCEPT ![i] =
                    IF Exists(cache, ModelPath)
                    THEN [@ EXCEPT !.pc = "returned", !.result = "path"]
                    ELSE [@ EXCEPT !.pc = "mkdir"]]
    /\ UNCHANGED cache
    /\ UNCHANGED <<detail, segVars, pipeVars, embedVars>>

\* The steps of the calls interleave in any order; each call has its own
\* handle and position, and all share the files of the cache directory.
ConcNext ==
    \E i \in 1..MaxInvocations :
        \/ EnsureModelConcurrently(i)
        \/ CreateCacheDir(i)
        \/ HttpGet(i)
        \/ CreateTemp(i)
        \/ DownloadChunk(i)
        \/ EndOfBody(i)
        \/ RenameTemp(i)
        \/ Crash(i)

ConcSpec == ModelInit /\ [][ConcNext]_vars

\* ------------------------------------------------ claims about segment

RECURSIVE ConcatAll(_)
\* The concatenation of a sequence of sequences.
ConcatAll(seqs) ==
    IF seqs = <<>> THEN <<>>
    ELSE ConcatAll(SubSeq(seqs, 1, Len(seqs) - 1)) \o seqs[Len(seqs)]

RECURSIVE SumFrameCount(_)
\* The sum of frame_count over a sequence of segments.
SumFrameCount(segs) ==
    IF segs = <<>> THEN 0
    ELSE SumFrameCount(SubSeq(segs, 1, Len(segs) - 1)) + segs[Len(segs)].frame_count

\* The number of input frames in the segments before the k-th (1-based).
Offset(segs, k) == SumFrameCount(SubSeq(segs, 1, k - 1))

NonDecreasingIndices(frames) ==
    \A p \in 1..(Len(frames) - 1) : frames[p].index <= frames[p + 1].index

Returned == seg_pc = "done"

\* C1: for a non-empty input the returned segments exactly partition it:
\* segment k is created from the run of frame_count input frames that
\* follows the runs of the segments before it, the runs are non-empty,
\* together they are the whole input in order (the first starts at the
\* first frame, the still-open segment is closed so the last ends at the
\* last frame), and the frame counts sum to the input's length.
C1_SegmentsPartitionInput ==
    (Returned /\ embedded_frames # <<>>) =>
        /\ seg.segments # <<>>
        /\ Len(seg.members) = Len(seg.segments)
        /\ \A k \in 1..Len(seg.segments) :
               /\ seg.segments[k].frame_count >= 1
               /\ seg.members[k] =
                      SubSeq(embedded_frames,
                             Offset(seg.segments, k) + 1,
                             Offset(seg.segments, k) + seg.segments[k].frame_count)
        /\ ConcatAll(seg.members) = embedded_frames
        /\ SumFrameCount(seg.segments) = Len(embedded_frames)

\* C1's case: a full-length input returned as two segments.
C1_Witness ==
    /\ Returned
    /\ Len(embedded_frames) = MaxFrames
    /\ Len(seg.segments) = 2

\* C2: in an iteration of the loop on frame f a segment is closed if and
\* only if cosine(anchor, f.embedding) is strictly below the threshold and
\* the open segment already holds min_segment_frames frames; otherwise f is
\* appended to the open segment and no segment is closed.
C2_BreakIffBelowAndLongEnough ==
    [][(seg_pc = "loop" /\ seg_pc' = "loop"
          /\ Len(embedded_frames') = Len(embedded_frames) + 1) =>
        LET f      == embedded_frames'[Len(embedded_frames')]
            below  == CosineSimilarity(seg.anchor_embedding, f.embedding)
                          < SimilarityThreshold(detail)
            enough == Len(seg.segment_frames) >= MinSegmentFrames(detail)
        IN  /\ (Len(seg'.segments) = Len(seg.segments) + 1) <=> (below /\ enough)
            /\ (below /\ enough) =>
                   seg'.segments[Len(seg'.segments)].frame_count
                       = Len(seg.segment_frames)
            /\ ~(below /\ enough) =>
                   /\ seg'.segments = seg.segments
                   /\ seg'.segment_frames = Append(seg.segment_frames, f)]_vars

\* C2's case: a break was declared on one frame, and the next frame, again
\* below the threshold, was appended because the open segment is too short.
C2_Witness ==
    /\ seg_pc = "loop"
    /\ Len(seg.segments) = 1
    /\ Len(seg.segment_frames) = 2
    /\ seg.segment_frames[1].embedding # seg.segment_frames[2].embedding

\* C3: the representative of a returned segment of n frames is the member
\* at 0-indexed position floor(n / 2) of the member list it was created
\* from: a member of the segment, the only one when n = 1.
C3_RepresentativeIsMiddleMember ==
    \A k \in 1..Len(seg.segments) :
        LET n == seg.segments[k].frame_count
        IN  /\ k <= Len(seg.members)
            /\ n = Len(seg.members[k])
            /\ seg.segments[k].representative_frame = seg.members[k][(n \div 2) + 1]
            /\ \E p \in 1..n : seg.segments[k].representative_frame = seg.members[k][p]
            /\ n = 1 => seg.segments[k].representative_frame = seg.members[k][1]

\* C3's case: a segment of even length and a segment of one frame returned.
C3_Witness ==
    /\ Returned
    /\ Len(seg.segments) = 2
    /\ seg.segments[1].frame_count = MaxFrames - 1
    /\ seg.segments[2].frame_count = 1

\* C4: start_frame_idx and end_frame_idx of a segment are the source
\* indices (Frame.index) of its first and last member, not positions in the
\* input; so start_frame_idx <= end_frame_idx when the input's source
\* indices do not decrease.
C4_BoundsAreSourceIndices ==
    /\ \A k \in 1..Len(seg.segments) :
           LET first == Offset(seg.segments, k) + 1
               last  == Offset(seg.segments, k) + seg.segments[k].frame_count
           IN  /\ seg.segments[k].start_frame_idx = embedded_frames[first].index
               /\ seg.segments[k].end_frame_idx = embedded_frames[last].index
    /\ NonDecreasingIndices(embedded_frames) =>
           \A k \in 1..Len(seg.segments) :
               seg.segments[k].start_frame_idx <= seg.segments[k].end_frame_idx

\* C4's case: a returned second segment whose first member is at a position
\* of the input that differs from its source index.
C4_Witness ==
    /\ Returned
    /\ NonDecreasingIndices(embedded_frames)
    /\ Len(seg.segments) = 2
    /\ seg.segments[2].frame_count >= 2
    /\ seg.segments[2].start_frame_idx # Offset(seg.segments, 2)
    /\ seg.segments[2].start_frame_idx < seg.segments[2].end_frame_idx

\* C5: the k-th segment (0-based) has index k, and when the input's source
\* indices do not decrease, start_frame_idx does not decrease from one
\* segment to the next.
C5_IndicesArePositions ==
    /\ \A k \in 1..Len(seg.segments) : seg.segments[k].index = k - 1
    /\ NonDecreasingIndices(embedded_frames) =>
           \A k \in 1..(Len(seg.segments) - 1) :
               seg.segments[k].start_frame_idx <= seg.segments[k + 1].start_frame_idx

\* C5's case: two segments returned for an input of rising source indices.
C5_Witness ==
    /\ Returned
    /\ order = "ascending"
    /\ Len(seg.segments) = 2
    /\ seg.segments[1].index < seg.segments[2].index

\* C6: for an empty input segment returns no segments and never calls the
\* progress callback, at every detail level.
C6_EmptyInputEmptyOutput ==
    (Returned /\ embedded_frames = <<>>) =>
        /\ seg.segments = <<>>
        /\ seg_calls = <<>>

\* C6's case: segment has returned on an empty input, a callback given.
C6_Witness ==
    /\ Returned
    /\ embedded_frames = <<>>
    /\ seg_callback = "Some"

\* C7: for an input of one frame segment returns exactly one segment, with
\* index 0, frame_count 1, both bounds the frame's source index and the
\* frame as representative, at every detail level.
C7_SingleFrameSingleSegment ==
    (Returned /\ Len(embedded_frames) = 1) =>
        /\ Len(seg.segments) = 1
        /\ seg.segments[1].index = 0
        /\ seg.segments[1].frame_count = 1
        /\ seg.segments[1].start_frame_idx = embedded_frames[1].index
        /\ seg.segments[1].end_frame_idx = embedded_frames[1].index
        /\ seg.segments[1].representative_frame = embedded_frames[1]

\* C7's case: segment has returned on an input of one frame whose source
\* index is not 0.
C7_Witness ==
    /\ Returned
    /\ Len(embedded_frames) = 1
    /\ embedded_frames[1].index # 0

\* The frame the loop of segment has just taken, in a step of the loop.
LoopStep ==
    /\ seg_pc = "loop"
    /\ seg_pc' = "loop"
    /\ Len(embedded_frames') = Len(embedded_frames) + 1

\* normalize(0.9 * anchor + 0.1 * embedding), with the normalisation of
\* embeddings.rs.
Blend(anchor, embedding) ==
    NormalizeVector(<<(9 * anchor[1] + embedding[1]) \div 10,
                      (9 * anchor[2] + embedding[2]) \div 10>>)

\* C21: when an iteration on frame f closes a segment, the closed segment is
\* made of exactly the frames accumulated before f and gets the next
\* sequential index, f alone opens the new segment and the anchor becomes
\* f.embedding itself; when it closes none, f is appended and the anchor
\* becomes the re-normalised 0.9/0.1 blend of the old anchor and
\* f.embedding, also when f is below the threshold and the open segment is
\* shorter than the minimum.
C21_BreakResetsAnchorElseBlend ==
    [][LoopStep =>
        LET f      == embedded_frames'[Len(embedded_frames')]
            closed == Len(seg'.segments) = Len(seg.segments) + 1
        IN  /\ closed =>
                   /\ seg'.members = Append(seg.members, seg.segment_frames)
                   /\ seg'.segments =
                          Append(seg.segments,
                                 CreateSegment(Len(seg.segments),
                                               seg.segment_frames,
                                               seg.segment_start_idx))
                   /\ seg'.segments[Len(seg'.segments)].index = Len(seg.segments)
                   /\ seg'.segment_frames = <<f>>
                   /\ seg'.anchor_embedding = f.embedding
            /\ ~closed =>
                   /\ seg'.segments = seg.segments
                   /\ seg'.members = seg.members
                   /\ seg'.segment_frames = Append(seg.segment_frames, f)
                   /\ seg'.anchor_embedding
                          = Blend(seg.anchor_embedding, f.embedding)]_vars

\* C21's case: the second frame differed from the first and was appended to
\* the short open segment, which moved the anchor off the first embedding;
\* a later frame closed that segment, opened the next alone and is the
\* anchor.
C21_Witness ==
    /\ seg_pc = "loop"
    /\ Len(seg.segments) = 1
    /\ Len(seg.members[1]) >= 2
    /\ seg.members[1][2].embedding # seg.members[1][1].embedding
    /\ seg.segment_frames = <<embedded_frames[Len(embedded_frames)]>>
    /\ seg.anchor_embedding = embedded_frames[Len(embedded_frames)].embedding

\* Every returned segment but the last holds min_segment_frames frames.
ClosedSegmentsLongEnough ==
    \A k \in 1..(Len(seg.segments) - 1) :
        seg.segments[k].frame_count >= MinSegmentFrames(detail)

\* C22, as stated: every returned segment but the last has frame_count >=
\* min_segment_frames, and every input of at most min_segment_frames
\* frames, the empty one included, yields exactly one segment.
C22_ShortInputOneSegment ==
    Returned =>
        /\ ClosedSegmentsLongEnough
        /\ (Len(embedded_frames) <= MinSegmentFrames(detail)) =>
               Len(seg.segments) = 1

\* C22: every returned segment but the last has frame_count >=
\* min_segment_frames, and every non-empty input of at most
\* min_segment_frames frames yields exactly one segment, whatever the
\* embeddings are.
C22_ShortNonEmptyInputOneSegment ==
    Returned =>
        /\ ClosedSegmentsLongEnough
        /\ (embedded_frames # <<>>
              /\ Len(embedded_frames) <= MinSegmentFrames(detail)) =>
               Len(seg.segments) = 1

\* C22's case: segment has returned one segment on an input of exactly
\* min_segment_frames frames whose embeddings are not all the same.
C22_Witness ==
    /\ Returned
    /\ Len(embedded_frames) = MinSegmentFrames(detail)
    /\ \E p \in 1..Len(embedded_frames) :
           embedded_frames[p].embedding # embedded_frames[1].embedding
    /\ Len(seg.segments) = 1

\* ------------------------------------------------ claims about process

\* The stage functions of process in the order of its source.
StageOrder ==
    <<"VideoLoader::new", "VideoLoader::metadata", "extract_frames",
      "EmbeddingModel::new", "compute_embeddings_batch", "segment",
      "write_frames", "write_metadata", "ProcessingResult">>

Started(p, stage) == \E k \in 1..Len(p.trace) : p.trace[k] = stage

\* C8: the stages of process run in the order open/validate, sample, embed,
\* segment, write, assemble, each at most once: the stage functions called
\* so far are always a prefix of StageOrder; a step starts one stage, and
\* only while no stage has failed; when segment starts every sampled frame
\* has been embedded.
C8_StagesRunInOrder ==
    /\ [](/\ Len(run.trace) <= Len(StageOrder)
          /\ run.trace = SubSeq(StageOrder, 1, Len(run.trace))
          /\ Started(run, "segment") =>
                 /\ run.frames = ExtractFramesOf(video, quality)
                 /\ Len(run.embedded) = Len(run.frames)
                 /\ \A k \in 1..Len(run.frames) :
                        run.embedded[k].index = run.frames[k].index)
    /\ [][run'.trace # run.trace =>
             /\ run.error = "none"
             /\ run.pc \notin {"ok", "failed"}
             /\ Len(run'.trace) = Len(run.trace) + 1]_vars

\* C8's case: a run that went through every stage and wrote two images.
C8_Witness ==
    /\ run.pc = "ok"
    /\ run.trace = StageOrder
    /\ Len(run.frames) = MaxDecoded
    /\ Len(run.images) = 2

\* C9: a successful run with a progress callback reports exactly five
\* milestones (stage, ordinal, total); the ordinals are distinct and
\* increasing from one stage to the next and the total is the number of
\* stages reported.
C9_FiveMilestonesDistinctOrdinals ==
    (run.pc = "ok" /\ callback = "Some") =>
        /\ Len(run.progress) = 5
        /\ \A i, j \in 1..Len(run.progress) :
               i < j => run.progress[i][2] < run.progress[j][2]
        /\ \A i \in 1..Len(run.progress) :
               run.progress[i][3] = Len(run.progress)

\* What process lets a caller see apart from the calls to callbacks.
Observable(p) == [p EXCEPT !.progress = <<>>, !.calls = <<>>]

\* C10: progress reporting never alters control flow: on the same video,
\* configuration and collaborator outcomes, process with its callback
\* absent or present, and the stages with an observer on every optional
\* callback, call the same stage functions, write the same files and return
\* the same result or error.
C10_CallbacksDoNotAlterTheRun == Observable(run) = Observable(twin)

\* C10's case: a successful run without a callback that wrote two images,
\* beside the same run with observers that were called.
C10_Witness ==
    /\ run.pc = "ok"
    /\ callback = "None"
    /\ run.progress = <<>>
    /\ run.calls = <<>>
    /\ Len(run.images) = 2
    /\ Len(twin.progress) > 0
    /\ \E k \in 1..Len(twin.calls) : twin.calls[k][1] = "write_frames"
    /\ \E k \in 1..Len(twin.calls) : twin.calls[k][1] = "segment"

\* ------------------------------------------------ claims about failures

\* main.rs, run: what process gave back, as run hands it to main.
RunOutcome(p) ==
    IF p.pc = "failed"
    THEN [ok |-> FALSE, error |-> p.error]
    ELSE [ok |-> TRUE, error |-> "none"]

\* main.rs, main: the exit status for what run returned.
ExitCode(outcome) == IF outcome.ok THEN "SUCCESS" ELSE "FAILURE"

\* The error variants each stage function of process can return.
StageErrors(stage) ==
    CASE stage = "VideoLoader::new"         -> {"VideoNotFound", "UnsupportedFormat"}
      [] stage = "VideoLoader::metadata"    -> {"VideoDecode", "OpenCV"}
      [] stage = "extract_frames"           -> {"VideoDecode", "OpenCV"}
      [] stage = "EmbeddingModel::new"      -> {"Onnx"}
      [] stage = "compute_embeddings_batch" -> {"Onnx", "Embedding"}
      [] stage = "write_frames"             -> {"Output", "Io"}
      [] stage = "write_metadata"           -> {"Output", "Io"}
      [] OTHER                              -> {}

\* C11: when a stage function of process returns an error, process is over:
\* it returns that error, an error of the stage called last; no stage
\* function is called afterwards and none is called again; "Complete" is
\* not reported and no result is assembled; main exits with FAILURE.
C11_FailureAbortsTheRun ==
    /\ [](run.error # "none" =>
            /\ run.pc = "failed"
            /\ run.trace # <<>>
            /\ run.error \in StageErrors(run.trace[Len(run.trace)])
            /\ \A k \in 1..Len(run.progress) : run.progress[k][1] # "Complete"
            /\ ~Started(run, "ProcessingResult")
            /\ run.result = NotRunning.result
            /\ ExitCode(RunOutcome(run)) = "FAILURE")
    /\ [](run.pc = "failed" => run.error # "none")
    /\ [][run.error # "none" => run' = run]_vars

\* C11's case: the second image cannot be created; the first stays, five
\* milestones were reported and the run has failed with the I/O error.
C11_Witness ==
    /\ run.pc = "failed"
    /\ run.error = "Io"
    /\ callback = "Some"
    /\ Len(run.progress) = 5
    /\ Len(run.images) = 1
    /\ run.trace[Len(run.trace)] = "write_frames"

\* C12: the manifest is written last, after every image has been written
\* in full, and a run that fails, the manifest write included, leaves no
\* manifest file behind, partial or otherwise.
C12_ManifestLastNeverPartial ==
    /\ run.manifest # "absent" =>
           /\ Started(run, "write_metadata")
           /\ Len(run.images) = Len(run.segments)
           /\ \A k \in 1..Len(run.images) : run.images[k].complete
    /\ run.pc = "failed" => run.manifest = "absent"
    /\ run.manifest # "partial"

\* ------------------------------------------------ claims about the output

RECURSIVE DigitsValue(_)
\* The number a sequence of decimal digits writes.
DigitsValue(digits) ==
    IF digits = <<>> THEN 0
    ELSE 10 * DigitsValue(SubSeq(digits, 1, Len(digits) - 1)) + digits[Len(digits)]

\* C13: once write_frames has returned, there is one image and one record
\* per segment, in segment order; image k is named by the four digits of k
\* (counted from 1, padded with zeros) and holds the representative of the
\* segment of index k - 1; record k carries that name, segment_index k - 1
\* and the representative's source frame index; the manifest's
\* extracted_frames is the number of records.
C13_ImagesAndRecordsFollowSegments ==
    Started(run, "write_metadata") =>
        LET n == Len(run.segments)
        IN  /\ Len(run.images) = n
            /\ Len(run.frame_metadata) = n
            /\ \A k \in 1..n :
                 /\ Len(run.images[k].filename) = 4
                 /\ DigitsValue(run.images[k].filename) = k
                 /\ run.segments[k].index = k - 1
                 /\ run.images[k].frame_index =
                        run.segments[k].representative_frame.index
                 /\ run.frame_metadata[k] =
                        [filename      |-> run.images[k].filename,
                         segment_index |-> k - 1,
                         frame_index   |->
                             run.segments[k].representative_frame.index]
            /\ run.output_meta.extracted_frames = n
            /\ run.output_meta.frames = run.frame_metadata

\* C13's case: a finished run of two segments, whose second image 0002
\* holds a representative that is not the frame of the first.
C13_Witness ==
    /\ run.pc = "ok"
    /\ Len(run.segments) = 2
    /\ run.images[2].filename = <<0, 0, 0, 2>>
    /\ run.frame_metadata[2].segment_index = 1
    /\ run.frame_metadata[2].frame_index > run.frame_metadata[1].frame_index
    /\ run.output_meta.extracted_frames = 2

\* ------------------------------------------------ claims about sampling

\* The source indices below `decoded` that are multiples of `stride`.
Multiples(decoded, stride) ==
    {i \in 0..(decoded - 1) : \E m \in 0..decoded : i = m * stride}

\* C14: when extract_frames has returned, on a source that decoded D
\* frames at stride S, the frames are exactly those whose source index is
\* a multiple of S below D, each once, in strictly increasing order, the
\* frame of index 0 first whenever D >= 1; the index of the k-th frame is
\* its place in the source, (k - 1) * S, not its place k - 1 among the
\* frames kept.
C14_SampledFramesAreMultiplesOfStride ==
    Started(run, "EmbeddingModel::new") =>
        LET S == FrameSampleRate(quality)
            D == video.decodable
            n == Len(run.frames)
        IN  /\ S >= 1
            /\ {run.frames[k].index : k \in 1..n} = Multiples(D, S)
            /\ n = Cardinality(Multiples(D, S))
            /\ \A k \in 1..(n - 1) : run.frames[k].index < run.frames[k + 1].index
            /\ D >= 1 => (n >= 1 /\ run.frames[1].index = 0)
            /\ \A k \in 1..n : run.frames[k].index = (k - 1) * S

\* C14's case: 17 frames decoded at stride 15 gave the frames 0 and 15.
C14_Witness ==
    /\ Started(run, "EmbeddingModel::new")
    /\ quality = "Fast"
    /\ video.decodable = MaxDecoded
    /\ run.frames = <<Frame(0), Frame(15)>>

\* The source stops decoding before the frame count its container reports:
\* cap.read returns false, or an empty frame, in mid-stream.
StopsMidStream(v) == v.decodable < v.frame_count

\* C15: on a source that stops decoding in mid-stream, extract_frames (its
\* reads raising no error) returns Ok with the frames sampled before the
\* stop, and the run goes on with exactly those frames: they are the ones
\* embedded, segmented and counted in the result.
C15_DecodeFailureStopsTheSequence ==
    StopsMidStream(video) =>
        /\ run.pc = "extract" =>
               ENABLED (ExtractFrames /\ run'.pc = "model" /\ run'.error = "none")
        /\ Started(run, "EmbeddingModel::new") =>
               /\ Len(run.frames) = Cardinality(Multiples(video.decodable,
                                                          FrameSampleRate(quality)))
               /\ \A k \in 1..Len(run.frames) : run.frames[k].index < video.decodable
        /\ Started(run, "segment") =>
               /\ Len(run.embedded) = Len(run.frames)
               /\ SumFrameCount(run.segments) = Len(run.frames)
        /\ run.pc = "ok" =>
               /\ run.result.total_frames_processed = Len(run.frames)
               /\ Len(run.images) = Len(run.segments)

\* C15's case: the container reports 17 frames and decoding stops after
\* 16; the run finished and wrote two images for the 16 frames.
C15_Witness ==
    /\ StopsMidStream(video)
    /\ video.decodable = MaxDecoded - 1
    /\ run.pc = "ok"
    /\ run.result.total_frames_processed = MaxDecoded - 1
    /\ Len(run.images) = 2

\* ------------------------------------------------ claims about validation

\* Two characters are the same letter in either case, or the same character.
SameIgnoringCase(a, b) ==
    \/ a = b
    \/ \E j \in 1..Len(UpperCase) :
           {a, b} = {UpperCase[j], LowerCase[j]}

\* The extension is one of the supported formats, compared without case.
Supported(extension) ==
    \E f \in SUPPORTED_FORMATS :
        /\ Len(f) = Len(extension)
        /\ \A i \in 1..Len(f) : SameIgnoringCase(f[i], extension[i])

\* The capture of the video has been opened: metadata and extract_frames
\* are the callers of open_capture.
CaptureOpened(p) ==
    Started(p, "VideoLoader::metadata") \/ Started(p, "extract_frames")

\* C16: once VideoLoader::new has been called, a path that does not exist
\* or is not a regular file has failed the run with VideoNotFound, whatever
\* its extension; an existing regular file whose extension is not a
\* supported format, compared without case, has failed it with
\* UnsupportedFormat; in both cases the capture was never opened; any other
\* file has passed validation.
C16_ValidationBeforeDecode ==
    Started(run, "VideoLoader::new") =>
        /\ (~video.exists \/ ~video.is_file) =>
               /\ run.pc = "failed"
               /\ run.error = "VideoNotFound"
               /\ ~CaptureOpened(run)
        /\ (video.exists /\ video.is_file /\ ~Supported(video.extension)) =>
               /\ run.pc = "failed"
               /\ run.error = "UnsupportedFormat"
               /\ ~CaptureOpened(run)
        /\ (video.exists /\ video.is_file /\ Supported(video.extension)) =>
               /\ run.error \notin {"VideoNotFound", "UnsupportedFormat"}
               /\ run.pc = "failed" => CaptureOpened(run)

\* C16's case: a missing path of an unsupported extension has failed with
\* VideoNotFound after the one call of VideoLoader::new.
C16_Witness ==
    /\ ~video.exists
    /\ video.extension = <<"t", "x", "t">>
    /\ run.pc = "failed"
    /\ run.error = "VideoNotFound"
    /\ run.trace = <<"VideoLoader::new">>

\* ------------------------------------------------ claims about embedding

\* The number of frames in the j-th chunk of the input.
ChunkLength(j) ==
    LET size == EmbeddingBatchSize(quality)
        left == Len(emb.frames) - (j - 1) * size
    IN  IF left < size THEN left ELSE size

\* The tensor has one row of EmbeddingDim values per frame of the chunk.
WellFormed(tensor, frames_in_chunk) ==
    /\ tensor.shape = <<frames_in_chunk, EmbeddingDim>>
    /\ Len(tensor.data) = frames_in_chunk * EmbeddingDim

\* Every tensor the session returned so far matches its chunk.
AllWellFormed ==
    \A j \in 1..Len(emb.tensors) : WellFormed(emb.tensors[j], ChunkLength(j))

\* C17: at every batch size, compute_embeddings_batch gives the frames
\* their results in input order, one per frame when it returns; as long as
\* the session's tensors have a row per frame, the embedding of each frame
\* is the one compute_embedding gives that frame alone, wherever the frame
\* falls in its chunk.
C17_BatchingKeepsOrderAndEmbeddings ==
    /\ Len(emb.results) <= Len(emb.frames)
    /\ \A k \in 1..Len(emb.results) : emb.results[k].index = emb.frames[k].index
    /\ emb.pc = "returned" => Len(emb.results) = Len(emb.frames)
    /\ AllWellFormed =>
           \A k \in 1..Len(emb.results) :
               emb.results[k] = ComputeEmbedding(video, emb.frames[k])
    /\ (emb.pc = "returned" /\ AllWellFormed) =>
           emb.results = EmbedFrames(video, emb.frames)

\* C17's case: 33 frames at batch size 16 went through three chunks of 16,
\* 16 and 1 frames, the content changing between the last frame of the
\* first chunk and the first frame of the second.
C17_Witness ==
    /\ emb.pc = "returned"
    /\ quality = "Best"
    /\ Len(emb.frames) = 33
    /\ Len(emb.tensors) = 3
    /\ AllWellFormed
    /\ emb.results[16].embedding = EmbA
    /\ emb.results[17].embedding = EmbB

\* C18: the embedding stage fails, with an embedding error, whenever the
\* session returns a tensor that does not match the chunk, and no result
\* ever carries an embedding of another length than the provider's.
C18_MalformedTensorFailsTheStage ==
    /\ ~AllWellFormed => emb.pc = "failed"
    /\ emb.pc = "failed" => emb.error \in {"Embedding", "Onnx"}
    /\ \A k \in 1..Len(emb.results) :
           Len(emb.results[k].embedding) = EmbeddingDim

\* ------------------------------------------------ claims about the policy

\* The place of a value in an enum's declaration.
Rank(enum, value) == CHOOSE i \in 1..Len(enum) : enum[i] = value

\* The detail levels finer than the run's, the presets above the run's.
FinerDetails == {d \in DetailLevels : Rank(DetailOrder, detail) < Rank(DetailOrder, d)}

HigherPresets == {q \in QualityPresets : Rank(QualityOrder, quality) < Rank(QualityOrder, q)}

\* The values of the run's policy are positive and within their ranges:
\* threshold in (0, 1), minimum length, stride and batch size at least 1,
\* resize factor in (0, 1].
PolicyInRange ==
    /\ 0 < SimilarityThreshold(detail) /\ SimilarityThreshold(detail) < Scale
    /\ MinSegmentFrames(detail) >= 1
    /\ FrameSampleRate(quality) >= 1
    /\ EmbeddingBatchSize(quality) >= 1
    /\ 0 < ImageResizeFactor(quality) /\ ImageResizeFactor(quality) <= Scale

\* What the tables share in both readings: from key over summary to all
\* the threshold and the minimum segment length fall; from fast over
\* balanced to best the stride falls and the resize factor rises.
PolicyMonotone ==
    /\ \A d \in FinerDetails :
           /\ SimilarityThreshold(d) < SimilarityThreshold(detail)
           /\ MinSegmentFrames(d) < MinSegmentFrames(detail)
    /\ \A q \in HigherPresets :
           /\ FrameSampleRate(q) < FrameSampleRate(quality)
           /\ ImageResizeFactor(q) > ImageResizeFactor(quality)

\* C19 as stated: the tables are monotone, the embedding batch size rising
\* from fast over balanced to best, and every value is within its range.
C19_BatchSizeRises ==
    /\ PolicyMonotone
    /\ PolicyInRange
    /\ \A q \in HigherPresets : EmbeddingBatchSize(q) > EmbeddingBatchSize(quality)

\* C19, amended: the tables are monotone, the embedding batch size falling
\* from fast over balanced to best (64, 32, 16), and every value is within
\* its range.
C19_PolicyTablesMonotone ==
    /\ PolicyMonotone
    /\ PolicyInRange
    /\ \A q \in HigherPresets : EmbeddingBatchSize(q) < EmbeddingBatchSize(quality)

\* C19's case: a finished run under the coarsest preset and detail level,
\* which the other presets and levels are compared with, its frames
\* sampled at the stride of 15.
C19_Witness ==
    /\ run.pc = "ok"
    /\ quality = "Fast"
    /\ detail = "Key"
    /\ Cardinality(FinerDetails) = 2
    /\ Cardinality(HigherPresets) = 2
    /\ Len(run.frames) = 2
    /\ run.frames[2].index = FrameSampleRate(quality)

\* ------------------------------------------------ claims about the cache

\* The file at the path, <<>> when there is none.
FileAt(path) == IF Exists(cache, path) THEN cache.files[cache.paths[path]] ELSE <<>>

\* C20: through crashes and I/O errors at any step of download_model, and
\* calls made afterwards, the file at the cached model path is absent or
\* the complete download, and a call that returned the path returned that
\* of a complete file.
C20_CachedModelAbsentOrComplete ==
    /\ Exists(cache, ModelPath) => FileAt(ModelPath) = CompleteModel
    /\ \A i \in 1..MaxInvocations :
           ensure[i].result = "path" =>
               /\ Exists(cache, ModelPath)
               /\ FileAt(ModelPath) = CompleteModel

\* C20's case: the first call died with two chunks in the temporary file;
\* the second downloaded again and returned the path of the whole model.
C20_Witness ==
    /\ ensure[1].pc = "crashed"
    /\ ensure[1].downloaded = 2
    /\ ensure[2].pc = "returned"
    /\ ensure[2].downloaded = ModelChunks
    /\ ~Exists(cache, TempPath)
    /\ FileAt(ModelPath) = CompleteModel

\* No call has met an I/O error or died.
NoFault == \A i \in 1..MaxInvocations : ensure[i].pc \notin {"failed", "crashed"}

\* C23: with calls of ensure_model running at once on an empty cache, the
\* file at the cached model path, once there, is one complete download,
\* and a call that has come back has returned the path of that file or
\* failed with a model-load error.
C23_ConcurrentDownloadsKeepModelComplete ==
    /\ Exists(cache, ModelPath) => FileAt(ModelPath) = CompleteModel
    /\ \A i \in 1..MaxInvocations :
           ensure[i].pc \in {"returned", "failed"} =>
               \/ ensure[i].result = "ModelLoad"
               \/ /\ ensure[i].result = "path"
                  /\ Exists(cache, ModelPath)
                  /\ FileAt(ModelPath) = CompleteModel

====
